---- MODULE Spec2Model ----
(***************************************************************************)
(* tfam-kit.py: a FASTA toolkit.  A run reads a FASTA text into a list of  *)
(* [header, sequence] entries (fasta_reader), optionally loads a filter    *)
(* list (load_filter_dict), applies the one action selected by --action    *)
(* (the ACTIONS table) and writes the entries back (write_fasta).          *)
(*                                                                         *)
(* A Python str is modelled as a sequence of one-character strings, a      *)
(* Python list as a sequence, and an entry [header, sequence] as the       *)
(* sequence <<header, sequence>> (InfoN50 appends a third element).        *)
(* Text streams are the decoded text Python hands to the program: files    *)
(* are opened in text mode, so a line ends at "\n".                        *)
(***************************************************************************)
EXTENDS Integers, Sequences, FiniteSets, TLC

VARIABLES
    pc,           \* position of the run
    args,         \* run_args: [action, fasta, out, list]
    content,      \* the text behind the input handle
    list_text,    \* the text of the --list file
    fasta_data,   \* the entries (fasta_data in __main__)
    filter_dict,  \* the keys of filter_dict
    raised,       \* the uncaught exception, "none" when there is none
    input_source, \* "stdin", or the state of the --in file handle
    output_dest,  \* "stdout", or the state of the --out file handle
    out_file,     \* the --out file on disk: whether it exists, and its text
    stdout,       \* everything written to sys.stdout
    exit_status,  \* "running", or the status the process ended with
    writer_calls, \* how often write_fasta was invoked
    orig,         \* history: the entries before the operations in hist
    hist          \* history: the operations applied since orig

vars == <<pc, args, content, list_text, fasta_data, filter_dict, raised,
          input_source, output_dest, out_file, stdout, exit_status,
          writer_calls, orig, hist>>

----------------------------------------------------------------------------
(* Bounds of the model *)

\* longest input text of the parser specification
MaxContent == 6
\* most records of a generated FASTA input
MaxRecs == 3
\* longest sequence line of a generated FASTA input
MaxSeqLen == 2
\* most lines of a generated filter-list file
MaxListLines == 2
\* most records of an input of the case specification
MaxCaseRecs == 2
\* most operations applied in a row in the case specification
MaxOps == 2

----------------------------------------------------------------------------
(* Python str and list primitives *)

\* all strings over the characters S of length at most n
Strings(S, n) == UNION {[1..k -> S] : k \in 0..n}

\* the characters str.strip() removes that the model's texts can hold
Whitespace == {" ", "\n", "\r", "\t"}

RECURSIVE lstrip(_)
lstrip(s) ==
    IF s = <<>> THEN s
    ELSE IF Head(s) \in Whitespace THEN lstrip(Tail(s)) ELSE s

RECURSIVE rstrip(_)
rstrip(s) ==
    IF s = <<>> THEN s
    ELSE IF s[Len(s)] \in Whitespace THEN rstrip(SubSeq(s, 1, Len(s) - 1)) ELSE s

\* a strip() that forgets the trailing whitespace
strip_leading_only(s) == lstrip(s)

\* str.strip()
strip(s) == rstrip(lstrip(s))

\* s.replace(ch, '')
replace(s, ch) == SelectSeq(s, LAMBDA c : c # ch)

\* ''.join(parts)
RECURSIVE join(_)
join(parts) == IF parts = <<>> THEN <<>> ELSE Head(parts) \o join(Tail(parts))

\* s[1:]
slice1(s) == IF s = <<>> THEN <<>> ELSE Tail(s)

\* lst[:-1]
droplast(lst) == IF lst = <<>> THEN <<>> ELSE SubSeq(lst, 1, Len(lst) - 1)

\* handle.readlines(): the text cut after every "\n"; a last line without
\* "\n" is kept; no line is empty
RECURSIVE readlines_from(_, _, _)
readlines_from(text, cur, out) ==
    IF text = <<>> THEN (IF cur = <<>> THEN out ELSE Append(out, cur))
    ELSE IF Head(text) = "\n"
         THEN readlines_from(Tail(text), <<>>, Append(out, Append(cur, "\n")))
         ELSE readlines_from(Tail(text), Append(cur, Head(text)), out)

readlines(text) == readlines_from(text, <<>>, <<>>)

\* str.upper() and str.lower() on the letters the model's texts can hold
upper_char(c) == IF c = "a" THEN "A" ELSE IF c = "b" THEN "B" ELSE c
lower_char(c) == IF c = "A" THEN "a" ELSE IF c = "B" THEN "b" ELSE c
upper(s) == [i \in 1..Len(s) |-> upper_char(s[i])]
lower(s) == [i \in 1..Len(s) |-> lower_char(s[i])]

\* str(n) for n >= 0
Digits == <<"0", "1", "2", "3", "4", "5", "6", "7", "8", "9">>
RECURSIVE str(_)
str(n) == IF n < 10 THEN <<Digits[n + 1]>>
          ELSE str(n \div 10) \o <<Digits[(n % 10) + 1]>>

----------------------------------------------------------------------------
(* WRITERS *)

\* printer(what, newline, stream): the stream after '{}{}'.format(what,
\* line_ending) is written to it.  Colouring adds no character when
\* termcolor is not importable (has_termcolor = False).
printer(what, newline, stream) ==
    stream \o what \o (IF newline THEN <<"\n">> ELSE <<>>)

RECURSIVE write_fasta(_, _)
write_fasta(fasta_entries, stream) ==
    IF fasta_entries = <<>> THEN stream
    ELSE LET e  == Head(fasta_entries)
             s1 == printer(<<">">>, FALSE, stream)
             s2 == printer(e[1], TRUE, s1)
             s3 == printer(e[2], TRUE, s2)
         IN  write_fasta(Tail(fasta_entries), s3)

----------------------------------------------------------------------------
(* READERS *)

\* fasta_entries[-1][1] = value
set_last_sequence(fasta_entries, value) ==
    [fasta_entries EXCEPT ![Len(fasta_entries)] = [@ EXCEPT ![2] = value]]

\* the for loop of fasta_reader; an index into an empty str or an empty
\* list raises IndexError
RECURSIVE reader_loop(_, _, _)
reader_loop(fasta_lines, fasta_entries, sequence_accu) ==
    IF fasta_lines = <<>>
    THEN [raised |-> "none", entries |-> fasta_entries]
    ELSE LET line == Head(fasta_lines) IN
         IF line = <<>>
         THEN [raised |-> "IndexError", entries |-> <<>>]
         ELSE IF line[1] = ">"
         THEN IF Len(sequence_accu) > 0
              THEN IF fasta_entries = <<>>
                   THEN [raised |-> "IndexError", entries |-> <<>>]
                   ELSE reader_loop(Tail(fasta_lines),
                            Append(set_last_sequence(fasta_entries,
                                       replace(replace(join(sequence_accu), "\n"), "\r")),
                                   <<strip(slice1(line)), <<>>>>),
                            <<>>)
              ELSE reader_loop(Tail(fasta_lines),
                       Append(fasta_entries, <<strip(slice1(line)), <<>>>>),
                       sequence_accu)
         ELSE reader_loop(Tail(fasta_lines), fasta_entries,
                          Append(sequence_accu, line))

\* fasta_reader(handle) for a handle over `text`: what it returns in
\* .entries, or the exception it raises in .raised
fasta_reader(text) ==
    LET r == reader_loop(readlines(text) \o << <<">", "\n">> >>, <<>>, <<>>)
    IN  IF r.raised # "none" THEN r
        ELSE [raised |-> "none", entries |-> droplast(r.entries)]

\* the for loop of load_filter_dict over the lines of the list file;
\* filter_item[0] on an empty str raises IndexError
RECURSIVE filter_loop(_, _)
filter_loop(lines, keys) ==
    IF lines = <<>> THEN [raised |-> "none", keys |-> keys]
    ELSE LET filter_item == strip(Head(lines)) IN
         IF filter_item = <<>>
         THEN [raised |-> "IndexError", keys |-> {}]
         ELSE filter_loop(Tail(lines),
                  keys \cup {IF filter_item[1] = ">" THEN slice1(filter_item)
                             ELSE filter_item})

\* load_filter_dict(input_file) for a file holding `text`: the keys of the
\* dict it returns in .keys, or the exception it raises in .raised
load_filter_dict(text) == filter_loop(readlines(text), {})

----------------------------------------------------------------------------
(* Values of the variables a specification does not use *)

NoArgs == [action |-> "none", fasta |-> FALSE, out |-> FALSE, list |-> FALSE]
NoFile == [exists |-> FALSE, text |-> <<>>]

----------------------------------------------------------------------------
(* The parser and the writer on their own: parse, write, parse again *)

\* the characters of the parser specification's input texts
ParseAlphabet == {">", "A", " ", "\n"}

InitParse ==
    /\ pc = "parse"
    /\ content \in Strings(ParseAlphabet, MaxContent)
    /\ args = NoArgs
    /\ list_text = <<>>
    /\ fasta_data = <<>>
    /\ filter_dict = {}
    /\ raised = "none"
    /\ input_source = "stdin"
    /\ output_dest = "stdout"
    /\ out_file = NoFile
    /\ stdout = <<>>
    /\ exit_status = "running"
    /\ writer_calls = 0
    /\ orig = <<>>
    /\ hist = <<>>

\* fasta_data = fasta_reader(input_source)
ParseInput ==
    /\ pc = "parse"
    /\ LET r == fasta_reader(content) IN
         /\ raised' = r.raised
         /\ fasta_data' = r.entries
         /\ orig' = r.entries
         /\ pc' = IF r.raised = "none" THEN "parsed" ELSE "failed"
    /\ UNCHANGED <<args, content, list_text, filter_dict, input_source,
                   output_dest, out_file, stdout, exit_status, writer_calls, hist>>

\* write_fasta(fasta_data, stream) into an empty stream
WriteBack ==
    /\ pc = "parsed"
    /\ stdout' = write_fasta(fasta_data, <<>>)
    /\ writer_calls' = writer_calls + 1
    /\ hist' = Append(hist, "write")
    /\ pc' = "written"
    /\ UNCHANGED <<args, content, list_text, fasta_data, filter_dict, raised,
                   input_source, output_dest, out_file, exit_status, orig>>

\* fasta_reader over the text write_fasta produced
Reparse ==
    /\ pc = "written"
    /\ LET r == fasta_reader(stdout) IN
         /\ raised' = r.raised
         /\ fasta_data' = r.entries
         /\ pc' = IF r.raised = "none" THEN "reparsed" ELSE "failed"
    /\ hist' = Append(hist, "parse")
    /\ UNCHANGED <<args, content, list_text, filter_dict, input_source,
                   output_dest, out_file, stdout, exit_status, writer_calls, orig>>

NextParse == ParseInput \/ WriteBack \/ Reparse

SpecParse == InitParse /\ [][NextParse]_vars

----------------------------------------------------------------------------
(* What the parser is to return, stated on the lines of the input *)

IsHeaderLine(line) == line # <<>> /\ line[1] = ">"

HeaderLines(lines) == {i \in 1..Len(lines) : IsHeaderLine(lines[i])}

\* the index of the k-th header line
KthHeader(lines, k) ==
    CHOOSE i \in HeaderLines(lines) :
        Cardinality({j \in HeaderLines(lines) : j < i}) = k - 1

LineTerminators == {"\n", "\r"}

\* t without its leading and trailing whitespace
Trimmed(t) ==
    LET keep == {i \in 1..Len(t) : t[i] \notin Whitespace} IN
    IF keep = {} THEN <<>>
    ELSE SubSeq(t, CHOOSE i \in keep : \A j \in keep : i <= j,
                   CHOOSE i \in keep : \A j \in keep : i >= j)

\* the characters of lines[from..to] that are no line terminators
SequenceText(lines, from, to) ==
    SelectSeq(join(SubSeq(lines, from, to)), LAMBDA c : c \notin LineTerminators)

ExpectedRecords(lines) ==
    LET n == Cardinality(HeaderLines(lines)) IN
    [k \in 1..n |->
        LET i    == KthHeader(lines, k)
            next == IF k = n THEN Len(lines) + 1 ELSE KthHeader(lines, k + 1)
        IN  <<Trimmed(SubSeq(lines[i], 2, Len(lines[i]))),
              SequenceText(lines, i + 1, next - 1)>>]

\* C1: for every input text, parsing what write_fasta wrote for the parsed
\* records gives the parsed records again: no parse raises, and the second
\* parse returns the ordered (header, sequence) pairs of the first.
C1_RoundTrip ==
    pc \in {"failed", "reparsed"} =>
        /\ raised = "none"
        /\ pc = "reparsed"
        /\ fasta_data = orig

\* C2: fasta_reader returns for every input without raising; an input with
\* no header line gives no record, and lines before the first header give
\* no record.
C2_ParserTotal ==
    (pc \in {"parsed", "failed"} /\ hist = <<>>) =>
        /\ raised = "none"
        /\ fasta_data = ExpectedRecords(readlines(content))

\* C3: when the first line of the input is a header line, fasta_reader
\* returns one record per header line, in input order: the header is the
\* text after the first marker, trimmed; the sequence is the text of the
\* lines up to the next header line without the line terminators.
C3_RecordsPerHeader ==
    (pc \in {"parsed", "failed"} /\ hist = <<>>
        /\ content # <<>> /\ Head(content) = ">") =>
        /\ raised = "none"
        /\ fasta_data = ExpectedRecords(readlines(content))

\* C3 witness: two records with the same header, the first with a
\* sequence, the second (a header at the end of the input) with none
C3_Witness ==
    /\ pc = "parsed"
    /\ Len(fasta_data) = 2
    /\ fasta_data[1][1] = fasta_data[2][1]
    /\ fasta_data[1][2] # <<>>
    /\ fasta_data[2][2] = <<>>

----------------------------------------------------------------------------
(* SUPPORTED OPERATIONS.  Each takes the entries and the options and gives *)
(* the entries it leaves, the text it prints to sys.stdout, and whether it *)
(* ended the process with exit(0).                                         *)

\* an EntryLowercase that lowers the header as well
EntryLowercase_headers_too(input_entries, options) ==
    [entries |-> [i \in 1..Len(input_entries) |->
                     [input_entries[i] EXCEPT ![1] = lower(@), ![2] = lower(@)]],
     printed |-> <<>>, exited |-> FALSE]

EntryUppercase(input_entries, options) ==
    [entries |-> [i \in 1..Len(input_entries) |->
                     [input_entries[i] EXCEPT ![2] = upper(@)]],
     printed |-> <<>>, exited |-> FALSE]

EntryLowercase(input_entries, options) ==
    [entries |-> [i \in 1..Len(input_entries) |->
                     [input_entries[i] EXCEPT ![2] = lower(@)]],
     printed |-> <<>>, exited |-> FALSE]

\* a ListRemove that keeps the listed entries instead
ListRemove_listed(input_entries, options) ==
    [entries |-> SelectSeq(input_entries, LAMBDA e : e[1] \in options.filter_dict),
     printed |-> <<>>, exited |-> FALSE]

ListRemove(input_entries, options) ==
    [entries |-> SelectSeq(input_entries, LAMBDA e : e[1] \notin options.filter_dict),
     printed |-> <<>>, exited |-> FALSE]

ListKeep(input_entries, options) ==
    [entries |-> SelectSeq(input_entries, LAMBDA e : e[1] \in options.filter_dict),
     printed |-> <<>>, exited |-> FALSE]

\* sorted(input_entries, key = lambda x : x[2], reverse = True): a stable
\* sort, entries of equal length stay in their order
RECURSIVE insert_by_length(_, _)
insert_by_length(sorted, e) ==
    IF sorted = <<>> THEN <<e>>
    ELSE IF Head(sorted)[3] >= e[3]
         THEN <<Head(sorted)>> \o insert_by_length(Tail(sorted), e)
         ELSE <<e>> \o sorted

RECURSIVE sorted_by_length(_)
sorted_by_length(entries) ==
    IF entries = <<>> THEN <<>>
    ELSE insert_by_length(sorted_by_length(droplast(entries)),
                          entries[Len(entries)])

RECURSIVE sum_lengths(_)
sum_lengths(entries) ==
    IF entries = <<>> THEN 0 ELSE Head(entries)[3] + sum_lengths(Tail(entries))

\* a threshold test that a running sum of exactly half the total passes
reaches_half(running_sum, total_len) == 2 * running_sum >= total_len

\* running_sum > total_len / 2 (true division)
exceeds_half(running_sum, total_len) == 2 * running_sum > total_len

\* the second for loop of InfoN50: what it prints for the first entry that
\* crosses half of the total, <<>> when it ends without one
RECURSIVE n50_loop(_, _, _)
n50_loop(sorted, running_sum, total_len) ==
    IF sorted = <<>> THEN [printed |-> <<>>, exited |-> FALSE]
    ELSE LET i == Head(sorted)
             sum == running_sum + i[3]
         IN  IF exceeds_half(sum, total_len)
             THEN [printed |-> printer(i[1], TRUE,
                                printer(<<"\t">>, FALSE,
                                 printer(str(i[3]), FALSE,
                                  printer(<<"N", "5", "0", "\t">>, FALSE, <<>>)))),
                   exited |-> TRUE]
             ELSE n50_loop(Tail(sorted), sum, total_len)

\* InfoN50 appends its length to every entry, in place
InfoN50(input_entries, options) ==
    LET measured == [i \in 1..Len(input_entries) |->
                        Append(input_entries[i], Len(input_entries[i][2]))]
        r == n50_loop(sorted_by_length(measured), 0, sum_lengths(measured))
    IN  [entries |-> measured, printed |-> r.printed, exited |-> r.exited]

RECURSIVE length_table(_, _)
length_table(entries, stream) ==
    IF entries = <<>> THEN stream
    ELSE length_table(Tail(entries),
             printer(str(Len(Head(entries)[2])), TRUE,
              printer(<<"\t">>, FALSE,
               printer(Head(entries)[1], FALSE, stream))))

InfoEntryLength(input_entries, options) ==
    [entries |-> input_entries,
     printed |-> length_table(input_entries, <<>>),
     exited |-> TRUE]

EntryRenumerate(input_entries, options) ==
    [entries |-> [i \in 1..Len(input_entries) |->
                     [input_entries[i] EXCEPT ![1] = options.prefix \o str(i)]],
     printed |-> <<>>, exited |-> FALSE]

\* the keys of ACTIONS
ActionNames == {"upper", "lower", "remove", "keep", "renumerate", "N50", "len"}

\* ACTIONS[name](input_entries, **options); ACTIONS is a reserved word of TLA+
ACTIONS_call(name, input_entries, options) ==
    CASE name = "upper"      -> EntryUppercase(input_entries, options)
      [] name = "lower"      -> EntryLowercase(input_entries, options)
      [] name = "remove"     -> ListRemove(input_entries, options)
      [] name = "keep"       -> ListKeep(input_entries, options)
      [] name = "renumerate" -> EntryRenumerate(input_entries, options)
      [] name = "N50"        -> InfoN50(input_entries, options)
      [] name = "len"        -> InfoEntryLength(input_entries, options)

\* the options of __main__ with no --list and no --prefix
DefaultOptions == [filter_dict |-> {}, prefix |-> <<"s", "e", "q">>]

----------------------------------------------------------------------------
(* Generated FASTA inputs: up to n records, each a header line and one     *)
(* sequence line                                                           *)

RecordText(h, s) == <<">">> \o h \o <<"\n">> \o s \o <<"\n">>

RECURSIVE FastaTexts(_, _, _)
FastaTexts(H, S, n) ==
    IF n = 0 THEN {<<>>}
    ELSE LET shorter == FastaTexts(H, S, n - 1) IN
         shorter \cup {c \o RecordText(h, s) : c \in shorter, h \in H, s \in S}

----------------------------------------------------------------------------
(* Uppercase and Lowercase applied one after the other to parsed entries *)

CaseHeaders == {<<"a", "B">>}
CaseSequences == Strings({"A", "a"}, MaxSeqLen)

InitCase ==
    /\ pc = "parse"
    /\ content \in FastaTexts(CaseHeaders, CaseSequences, MaxCaseRecs)
    /\ args = NoArgs
    /\ list_text = <<>>
    /\ fasta_data = <<>>
    /\ filter_dict = {}
    /\ raised = "none"
    /\ input_source = "stdin"
    /\ output_dest = "stdout"
    /\ out_file = NoFile
    /\ stdout = <<>>
    /\ exit_status = "running"
    /\ writer_calls = 0
    /\ orig = <<>>
    /\ hist = <<>>

ApplyUppercase ==
    /\ pc = "parsed"
    /\ Len(hist) < MaxOps
    /\ fasta_data' = EntryUppercase(fasta_data, DefaultOptions).entries
    /\ hist' = Append(hist, "upper")
    /\ UNCHANGED <<pc, args, content, list_text, filter_dict, raised,
                   input_source, output_dest, out_file, stdout, exit_status,
                   writer_calls, orig>>

ApplyLowercase ==
    /\ pc = "parsed"
    /\ Len(hist) < MaxOps
    /\ fasta_data' = EntryLowercase(fasta_data, DefaultOptions).entries
    /\ hist' = Append(hist, "lower")
    /\ UNCHANGED <<pc, args, content, list_text, filter_dict, raised,
                   input_source, output_dest, out_file, stdout, exit_status,
                   writer_calls, orig>>

NextCase == ParseInput \/ ApplyUppercase \/ ApplyLowercase

SpecCase == InitCase /\ [][NextCase]_vars

\* upper-case letters and their lower-case forms
CasePairs == {<<"A", "a">>, <<"B", "b">>}
UpperLetters == {p[1] : p \in CasePairs}

\* t is s with every upper-case letter replaced by its lower-case form
IsLoweredFormOf(t, s) ==
    /\ Len(t) = Len(s)
    /\ \A j \in 1..Len(s) :
          IF s[j] \in UpperLetters THEN <<s[j], t[j]>> \in CasePairs
          ELSE t[j] = s[j]

\* C8 as stated: after Uppercase and then Lowercase every sequence is the
\* one before the two actions, whatever its case was; headers, record
\* count and record order are as before.
C8_UpperLowerRestores ==
    hist = <<"upper", "lower">> => fasta_data = orig

\* C8 amended: after Uppercase and then Lowercase every sequence is the
\* lower-case form of the one before the two actions, so it is the original
\* exactly when the original holds no upper-case letter; headers, record
\* count and record order are as before.
C8_UpperLowerGivesLower ==
    hist = <<"upper", "lower">> =>
        /\ Len(fasta_data) = Len(orig)
        /\ \A i \in 1..Len(orig) :
              /\ fasta_data[i][1] = orig[i][1]
              /\ IsLoweredFormOf(fasta_data[i][2], orig[i][2])
              /\ (fasta_data[i][2] = orig[i][2]
                    <=> \A j \in 1..Len(orig[i][2]) : orig[i][2][j] \notin UpperLetters)

\* C8 witness: Uppercase then Lowercase were applied to two records, one
\* of mixed case and one all lower-case
C8_Witness ==
    /\ hist = <<"upper", "lower">>
    /\ Len(orig) = 2
    /\ orig[1][2] = <<"A", "a">>
    /\ orig[2][2] = <<"a", "a">>

----------------------------------------------------------------------------
(* MAIN SCRIPT: one run of the program, a step per statement group.  An    *)
(* uncaught exception ends the process with status 1, exit(0) inside an    *)
(* action with status 0.  A handle is "closed" only by a close() of the    *)
(* program.                                                                *)

RunHeaders == {<<"a">>, <<"b">>}
RunSequences == Strings({"A"}, MaxSeqLen)

\* the lines of the generated filter-list files: a name, a name with the
\* marker, a blank line
ListLines == {<<"a", "\n">>, <<">", "b", "\n">>, <<"\n">>}

RECURSIVE ListTexts(_)
ListTexts(n) ==
    IF n = 0 THEN {<<>>}
    ELSE ListTexts(n - 1) \cup {t \o l : t \in ListTexts(n - 1), l \in ListLines}

\* the state before the first statement of __main__
InitCommon ==
    /\ pc = "open_in"
    /\ fasta_data = <<>>
    /\ filter_dict = {}
    /\ raised = "none"
    /\ input_source = "stdin"
    /\ output_dest = "stdout"
    /\ out_file = NoFile
    /\ stdout = <<>>
    /\ exit_status = "running"
    /\ writer_calls = 0
    /\ orig = <<>>
    /\ hist = <<>>

\* runs of the actions that use no filter list, on inputs whose sequences
\* differ in length, and on one input that starts with no header line
InitStats ==
    /\ InitCommon
    /\ content \in FastaTexts(RunHeaders, RunSequences, MaxRecs) \cup {<<"A", "\n">>}
    /\ list_text = <<>>
    /\ \E a \in (ActionNames \ {"remove", "keep"}) \cup {"reverse"},
          f \in BOOLEAN, o \in BOOLEAN :
          args = [action |-> a, fasta |-> f, out |-> o, list |-> FALSE]

\* runs of the filtering actions, with and without a filter list
InitFilter ==
    /\ InitCommon
    /\ content \in FastaTexts(RunHeaders, {<<"A">>}, MaxRecs)
    /\ \E a \in {"remove", "keep"}, f \in BOOLEAN, o \in BOOLEAN, l \in BOOLEAN :
          /\ args = [action |-> a, fasta |-> f, out |-> o, list |-> l]
          /\ list_text \in (IF l THEN ListTexts(MaxListLines) ELSE {<<>>})

Init == InitStats \/ InitFilter

\* input_source = sys.stdin, or open(run_args.fasta, 'r') for a file
OpenInput ==
    /\ pc = "open_in"
    /\ input_source' = IF args.fasta THEN "open" ELSE "stdin"
    /\ pc' = "read"
    /\ UNCHANGED <<args, content, list_text, fasta_data, filter_dict, raised,
                   output_dest, out_file, stdout, exit_status, writer_calls,
                   orig, hist>>

\* fasta_data = fasta_reader(input_source)
Read ==
    /\ pc = "read"
    /\ LET r == fasta_reader(content) IN
         /\ raised' = r.raised
         /\ fasta_data' = r.entries
         /\ orig' = r.entries
         /\ pc' = IF r.raised = "none" THEN "load_list" ELSE "ended"
         /\ exit_status' = IF r.raised = "none" THEN exit_status ELSE "1"
    /\ UNCHANGED <<args, content, list_text, filter_dict, input_source,
                   output_dest, out_file, stdout, writer_calls, hist>>

\* filter_dict = {}, or load_filter_dict(run_args.list) for a file
LoadFilter ==
    /\ pc = "load_list"
    /\ LET r == IF args.list THEN load_filter_dict(list_text)
                ELSE [raised |-> "none", keys |-> {}] IN
         /\ raised' = r.raised
         /\ filter_dict' = r.keys
         /\ pc' = IF r.raised = "none" THEN "open_out" ELSE "ended"
         /\ exit_status' = IF r.raised = "none" THEN exit_status ELSE "1"
    /\ UNCHANGED <<args, content, list_text, fasta_data, input_source,
                   output_dest, out_file, stdout, writer_calls, orig, hist>>

\* output_dest = sys.stdout, or open(run_args.out, 'w'), which creates the
\* file or truncates it
OpenOutput ==
    /\ pc = "open_out"
    /\ output_dest' = IF args.out THEN "open" ELSE "stdout"
    /\ out_file' = IF args.out THEN [exists |-> TRUE, text |-> <<>>] ELSE out_file
    /\ pc' = "lookup"
    /\ UNCHANGED <<args, content, list_text, fasta_data, filter_dict, raised,
                   input_source, stdout, exit_status, writer_calls, orig, hist>>

\* action_func = ACTIONS[run_args.action]: KeyError for a name that is no key
Lookup ==
    /\ pc = "lookup"
    /\ IF args.action \in ActionNames
       THEN /\ pc' = "call"
            /\ UNCHANGED <<raised, exit_status>>
       ELSE /\ pc' = "ended"
            /\ raised' = "KeyError"
            /\ exit_status' = "1"
    /\ UNCHANGED <<args, content, list_text, fasta_data, filter_dict,
                   input_source, output_dest, out_file, stdout, writer_calls,
                   orig, hist>>

\* action_func(fasta_data, **options)
Call ==
    /\ pc = "call"
    /\ LET r == ACTIONS_call(args.action, fasta_data,
                    [filter_dict |-> filter_dict, prefix |-> DefaultOptions.prefix]) IN
         /\ fasta_data' = r.entries
         /\ stdout' = stdout \o r.printed
         /\ pc' = IF r.exited THEN "ended" ELSE "write"
         /\ exit_status' = IF r.exited THEN "0" ELSE exit_status
    /\ hist' = Append(hist, args.action)
    /\ UNCHANGED <<args, content, list_text, filter_dict, raised, input_source,
                   output_dest, out_file, writer_calls, orig>>

\* write_fasta(fasta_data, output_dest)
Write ==
    /\ pc = "write"
    /\ writer_calls' = writer_calls + 1
    /\ IF output_dest = "stdout"
       THEN /\ stdout' = write_fasta(fasta_data, stdout)
            /\ UNCHANGED out_file
       ELSE /\ out_file' = [out_file EXCEPT !.text = write_fasta(fasta_data, @)]
            /\ UNCHANGED stdout
    /\ pc' = "close"
    /\ UNCHANGED <<args, content, list_text, fasta_data, filter_dict, raised,
                   input_source, output_dest, exit_status, orig, hist>>

\* if output_is_file: output_dest.close(); then the script ends
Close ==
    /\ pc = "close"
    /\ output_dest' = IF output_dest = "open" THEN "closed" ELSE output_dest
    /\ exit_status' = "0"
    /\ pc' = "ended"
    /\ UNCHANGED <<args, content, list_text, fasta_data, filter_dict, raised,
                   input_source, out_file, stdout, writer_calls, orig, hist>>

Next ==
    \/ OpenInput
    \/ Read
    \/ LoadFilter
    \/ OpenOutput
    \/ Lookup
    \/ Call
    \/ Write
    \/ Close

Spec == Init /\ [][Next]_vars

----------------------------------------------------------------------------
(* The claims about a run *)

\* the statistics actions, which print their report and end the process
TerminalActions == {"N50", "len"}

\* C4: when the selected action is N50 or len, write_fasta is never invoked
\* in the run, and the run ends with the action: it reaches neither the
\* writer nor the close that follows it.
C4_TerminalNeverWrites ==
    args.action \in TerminalActions =>
        /\ writer_calls = 0
        /\ pc \notin {"write", "close"}

SeqLen(entries, i) == Len(entries[i][2])

RECURSIVE SumOver(_, _)
SumOver(entries, S) ==
    IF S = {} THEN 0
    ELSE LET i == CHOOSE x \in S : TRUE IN
         SeqLen(entries, i) + SumOver(entries, S \ {i})

TotalLength(entries) == SumOver(entries, 1..Len(entries))

\* the records ahead of record i in the order "length descending, ties in
\* original order"
Ahead(entries, i) ==
    {j \in 1..Len(entries) :
        \/ SeqLen(entries, j) > SeqLen(entries, i)
        \/ SeqLen(entries, j) = SeqLen(entries, i) /\ j < i}

\* the running sum at record i strictly exceeds half of the total
Crosses(entries, i) ==
    2 * (SumOver(entries, Ahead(entries, i)) + SeqLen(entries, i)) > TotalLength(entries)

N50Line(entries, i) ==
    <<"N", "5", "0", "\t">> \o str(SeqLen(entries, i)) \o <<"\t">>
        \o entries[i][1] \o <<"\n">>

\* C5: for parsed records of total length above 0, the N50 action prints
\* exactly the line N50<TAB>length<TAB>header of the first record, in the
\* order "length descending, ties in original order", at which the running
\* sum strictly exceeds half of the total, and nothing else.
C5_N50Line ==
    (hist = <<"N50">> /\ TotalLength(orig) > 0) =>
        \E i \in 1..Len(orig) :
            /\ Crosses(orig, i)
            /\ \A j \in Ahead(orig, i) : ~Crosses(orig, j)
            /\ stdout = N50Line(orig, i)

\* C5 witness: N50 ran on lengths 1, 2, 2; the record found is the second
\* of the two tied ones, the third of the input
C5_Witness ==
    /\ hist = <<"N50">>
    /\ Len(orig) = 3
    /\ orig[1] = <<<<"a">>, <<"A">>>>
    /\ orig[2] = <<<<"b">>, <<"A", "A">>>>
    /\ orig[3] = <<<<"a">>, <<"A", "A">>>>
    /\ stdout = <<"N", "5", "0", "\t", "2", "\t", "a", "\n">>

\* C6: a run whose action is no key of ACTIONS ends with a non-zero status,
\* with the parsed records untouched, and at no point of the run is the
\* output file created, truncated or written.
C6_UnknownActionNoOutput ==
    args.action \notin ActionNames =>
        /\ ~out_file.exists
        /\ pc = "ended" => (exit_status = "1" /\ fasta_data = orig)

\* C7: when the process has ended, by normal completion after the writer,
\* by exit(0) inside a statistics action or by the failure on an unknown
\* action, every file handle the run opened has been closed.
C7_HandlesClosed ==
    (pc = "ended" /\ raised \in {"none", "KeyError"}) =>
        /\ input_source \in {"stdin", "closed"}
        /\ output_dest \in {"stdout", "closed"}

\* the indexes of the records Remove (Keep) with filter set F leaves
Surviving(entries, F, action) ==
    {i \in 1..Len(entries) : (entries[i][1] \in F) <=> (action = "keep")}

\* the k-th smallest element of the set of indexes S
KthOf(S, k) == CHOOSE i \in S : Cardinality({j \in S : j < i}) = k - 1

\* C9: Remove leaves exactly the records whose header is not in the filter
\* set, Keep exactly those whose header is in it, in their original order
\* and unmodified, duplicates of a header together; so Remove with the
\* empty filter set leaves the records unchanged and Keep with it leaves
\* none.
C9_FilterExact ==
    (args.action \in {"remove", "keep"} /\ hist = <<args.action>>) =>
        LET S == Surviving(orig, filter_dict, args.action) IN
        /\ Len(fasta_data) = Cardinality(S)
        /\ \A k \in 1..Len(fasta_data) : fasta_data[k] = orig[KthOf(S, k)]
        /\ (filter_dict = {} /\ args.action = "remove") => fasta_data = orig
        /\ (filter_dict = {} /\ args.action = "keep") => fasta_data = <<>>

\* C9 witness: Keep with the filter set {a} ran on records a, b, a and
\* left the two records a
C9_Witness ==
    /\ hist = <<"keep">>
    /\ filter_dict = {<<"a">>}
    /\ Len(orig) = 3
    /\ orig[1][1] = <<"a">> /\ orig[2][1] = <<"b">> /\ orig[3][1] = <<"a">>
    /\ Len(fasta_data) = 2

\* a line of the list file that holds whitespace only
IsBlank(line) == \A j \in 1..Len(line) : line[j] \in Whitespace

\* one entry per non-blank line: its text without an optional leading ">"
ExpectedFilter(text) ==
    LET lines == readlines(text) IN
    {LET t == Trimmed(lines[i]) IN
       IF t[1] = ">" THEN SubSeq(t, 2, Len(t)) ELSE t
     : i \in {j \in 1..Len(lines) : ~IsBlank(lines[j])}}

\* C10: for every list file, load_filter_dict returns without an error the
\* set with one entry per non-blank line; blank lines give no entry and no
\* error.
C10_FilterListTolerant ==
    (args.list /\ pc \notin {"open_in", "read", "load_list"}
        /\ fasta_reader(content).raised = "none") =>
        /\ raised # "IndexError"
        /\ filter_dict = ExpectedFilter(list_text)

====
